---- MODULE Spec2Model ----
(***************************************************************************)
(* Model of the Philler bottle-filling controller: the hardware I/O engine *)
(* (Hardware.py, class Filler), the filling sequencer (philler.py, class   *)
(* FillingSequencer on top of Sequencer.py) and the operator interface     *)
(* that feeds them (button events and the simulated-I/O buttons).          *)
(*                                                                         *)
(* Units.  Weights are integers in hundredths of a gram (56.50 g = 5650),  *)
(* pressures in hundredths of a psi (18.5 psi = 1850), durations in        *)
(* milliseconds.  Python floats are modelled by exact integer arithmetic   *)
(* on these units.                                                         *)
(*                                                                         *)
(* Time.  Sequencer.main waits `tickrate` (100 ms) before every handler    *)
(* call, so the countdown timer is kept as the number of sequencer ticks   *)
(* that must still elapse before it reads expired.  Durations of TimerCap  *)
(* ticks or more are kept as "at least TimerCap ticks".                    *)
(*                                                                         *)
(* Sensors.  The scale and the pressure sensor change under the running    *)
(* process (or under the simulated-I/O prompts) between any two reads, so  *)
(* every read of Filler.weight, Filler.stable and Filler.pressure by a     *)
(* state handler is an input of that handler call.  The two switches are   *)
(* kept as the fields of Filler, written by the engine thread, by the      *)
(* simulated-I/O buttons and by the sequencer.                             *)
(***************************************************************************)
EXTENDS Integers, Sequences, FiniteSets, TLC

(***************************************************************************)
(* Bounds of the model.                                                    *)
(***************************************************************************)
MaxButtons == 1       \* pending button events
MaxQueue == 2         \* pending requests to the filler hardware
MaxFilled == 1        \* bottles filled in one behaviour
TimerCap == 2         \* longest timer tracked exactly, in sequencer ticks
MaxStopTicks == 2     \* cap of the stop-switch tick counter
MaxLines == 2         \* non-empty lines read in a behaviour of the engine alone
MaxOdd == 2           \* samples off the resting weight in a weight history
MaxPosted == 3        \* commands posted in a behaviour of the engine alone
TicksPerSecond == 2   \* clock steps that make the second of Filler.connected
MaxSets == 2          \* calls of Configuration.set in one behaviour
MaxVisitPosts == 2    \* cap of the count of Pressurize commands of one wait
MaxOpenFailures == 2  \* cap of the count of failed attempts to open the port

(***************************************************************************)
(* Configuration.py: the default items of PRODUCT1, by CFG key.            *)
(***************************************************************************)
DEFAULT_ITEMS ==
  [ FILL_WEIGHT             |-> 2812,
    FILL_WEIGHT_MIN         |-> 2730,
    FILL_PRESSURE           |-> 1850,
    FILL_INIT_DISPENSE_TIME |-> 1500,
    FILL_INIT_DISPENSE_MIN  |-> 400,
    DISPENSE_OFFSET         |-> 150,
    DISPLAY_PRESSURE        |-> 2000,
    PURGE_TIME              |-> 500,
    PURGE_MAX_COUNT         |-> 5,
    TARE_TOLERANCE          |-> 30,
    BOTTLE_MIN_WEIGHT       |-> 4000,
    CLEAN_DISPENSE          |-> 30000 ]

getValue(configurable) == DEFAULT_ITEMS[configurable]

(***************************************************************************)
(* Configuration.py: the items as typed values, the text that the INI file *)
(* holds for them and the conversions between the two.  A float is kept in *)
(* hundredths; a text is kept by its shape: digits only ("1500"), digits   *)
(* with a decimal point ("28.12"), or a word ("None").                     *)
(***************************************************************************)
CFG == DOMAIN DEFAULT_ITEMS

\* the order of the entries of DEFAULT_ITEMS[DEFAULT_PRODUCT]
CfgOrder ==
  << "FILL_WEIGHT", "FILL_WEIGHT_MIN", "FILL_PRESSURE",
     "FILL_INIT_DISPENSE_TIME", "FILL_INIT_DISPENSE_MIN", "DISPENSE_OFFSET",
     "DISPLAY_PRESSURE", "PURGE_TIME", "PURGE_MAX_COUNT", "TARE_TOLERANCE",
     "BOTTLE_MIN_WEIGHT", "CLEAN_DISPENSE" >>

\* the declared type of each item
itemtype ==
  [ key \in CFG |->
      IF key \in {"FILL_INIT_DISPENSE_TIME", "PURGE_TIME", "PURGE_MAX_COUNT",
                  "CLEAN_DISPENSE"}
        THEN "int" ELSE "float" ]

IntValue(n)   == [type |-> "int", val |-> n]
FloatValue(h) == [type |-> "float", val |-> h]
None          == [type |-> "NoneType", val |-> 0]
ValueError    == [type |-> "ValueError", val |-> 0]
KeyError      == [type |-> "KeyError", val |-> 0]

Digits(n)  == [kind |-> "digits", val |-> n]
Decimal(h) == [kind |-> "decimal", val |-> h]
Word       == [kind |-> "word", val |-> 0]
Missing    == [kind |-> "missing", val |-> 0]

\* f'{value}'
format(value) ==
  CASE value.type = "int"   -> Digits(value.val)
    [] value.type = "float" -> Decimal(value.val)
    [] OTHER                -> Word

\* f'{defaultvalue}': the defaults of fill_init_dispense_min and
\* min_bottle_weight are written as integers (4 and 40), the other float
\* items with a decimal point
defaultText(key) ==
  IF itemtype[key] = "int" THEN Digits(DEFAULT_ITEMS[key])
  ELSE IF key \in {"FILL_INIT_DISPENSE_MIN", "BOTTLE_MIN_WEIGHT"}
    THEN Digits(DEFAULT_ITEMS[key] \div 100)
  ELSE Decimal(DEFAULT_ITEMS[key])

\* itemtype(text): int accepts digits only, float accepts both shapes of
\* number, and both raise ValueError on anything else
convert(type, text) ==
  CASE text.kind = "digits" ->
         IF type = "int" THEN IntValue(text.val)
                         ELSE FloatValue(100 * text.val)
    [] text.kind = "decimal" ->
         IF type = "int" THEN ValueError ELSE FloatValue(text.val)
    [] OTHER -> ValueError

(***************************************************************************)
(* Enumerations of philler.py and Hardware.py.                             *)
(***************************************************************************)
STATES ==
  { "UNINIT", "STANDBY", "DIAGNOSTICS", "SETUP",
    "FILL_PREP1", "FILL_PREP2", "FILL_RESET_STOP", "FILL_PRESSURIZE",
    "FILL_PURGE_INIT", "FILL_PURGE_SETUP", "FILL_PURGE_WAIT",
    "FILL_PURGE_CLEAR_WAIT", "FILL_PURGE_RESET_WAIT",
    "FILL_CLEAR_BOTTLE", "FILL_LOAD_BOTTLE", "FILL_LOAD_BOTTLE_WAIT",
    "FILL_READY_SETUP", "FILL_READY_WAIT",
    "FILL_INIT_FILLING", "FILL_INIT_FILLING_WAIT", "FILL_INIT_FILLING_FAILED",
    "FILL_FILLING_WAIT", "FILL_FILLING_FAILED", "FILL_TERMINATE",
    "CLEAN", "TERMINATE" }

\* range(states.FILL_PREP1, states.FILL_TERMINATE), as in MainWindow.updateState
fillStates ==
  { "FILL_PREP1", "FILL_PREP2", "FILL_RESET_STOP", "FILL_PRESSURIZE",
    "FILL_PURGE_INIT", "FILL_PURGE_SETUP", "FILL_PURGE_WAIT",
    "FILL_PURGE_CLEAR_WAIT", "FILL_PURGE_RESET_WAIT",
    "FILL_CLEAR_BOTTLE", "FILL_LOAD_BOTTLE", "FILL_LOAD_BOTTLE_WAIT",
    "FILL_READY_SETUP", "FILL_READY_WAIT",
    "FILL_INIT_FILLING", "FILL_INIT_FILLING_WAIT", "FILL_INIT_FILLING_FAILED",
    "FILL_FILLING_WAIT", "FILL_FILLING_FAILED" }

BUTTONS ==
  { "EXIT", "ABORT", "MAIN_ENTER_FILL", "MAIN_ENTER_CLEAN",
    "MAIN_ENTER_DIAGNOSTICS", "FILL_NEXT",
    "CLEAN_PRESSURE_ON", "CLEAN_PRESSURE_OFF", "CLEAN_DISPENSE",
    "DIAG_PRESSURE_ON", "DIAG_PRESSURE_OFF", "DIAG_DISPENSE", "DIAG_SETUP" }

TASKS == { "ABORT", "PRESSURIZE", "VENT", "DISPENSE" }

\* FillingSequencer.__init__: self.diagDispense
diagDispense == 250

\* Filler.__init__: the length of the weight history
maxweights == 30

\* the (task, param) tuple that Filler.request puts on the queue
Task(task, param) == <<task, param>>
ABORT      == Task("ABORT", "None")
PRESSURIZE == Task("PRESSURIZE", "None")
VENT       == Task("VENT", "None")
DISPENSE(param) == Task("DISPENSE", param)

(***************************************************************************)
(* Inputs of the environment.                                              *)
(***************************************************************************)
\* readings of Filler.weight: empty scale, empty bottle, the bottle after a
\* short first pulse, after a good first pulse, full bottle
Weights == { 0, 5000, 5300, 5650, 7812 }
\* readings of Filler.pressure: vented (0 psi) and pressurised (20 psi)
Pressures == { 0, 2000 }

VARIABLES
  \* ---- Filler (Hardware.py) ----
  simulate, simulatedFootswitchLatched, simulatedStopswitch,
  _stopswitch, _footswitch, _footswitchLatched,
  requests,        \* Filler.requests, the queue of (task, param)
  readpc,          \* position of the engine thread inside Filler.read
  \* ---- FillingSequencer (philler.py) ----
  state,
  seqRequests,     \* FillingSequencer.requests, the queue of buttons
  timer,           \* CountdownTimer: sequencer ticks left before `expired`
  weightWithBottle, purgeCount, filledCount,
  \* ---- observation ----
  rising,          \* the frame being parsed moved the foot switch from
                   \* released to pressed
  tapped,          \* the engine latched a pressed pedal in FILL_READY_WAIT
                   \* and the sequencer has not run since
  fillStopTicks,   \* consecutive sequencer ticks with the stop switch on
                   \* that left the sequencer in a fill state
  visitPosts,      \* Pressurize commands posted so far by the ticks of a
                   \* wait in FILL_PRESSURIZE that is still going on,
                   \* held at MaxVisitPosts
  fillProgress,    \* how many of Milestones the fill session in course
                   \* has passed, in their order; 0 outside a session
  \* ---- Filler (Hardware.py), followed when the engine runs alone ----
  _weight,         \* the last weight decoded
  _weights,        \* the weight history, newest last
  pressureRaw,     \* the last pressure count decoded
  messageAge,      \* time.time() - Filler.lastmessage, in clock steps,
                   \* held at TicksPerSecond
  serOut,          \* what Filler.read has written to the serial port
  \* ---- observation of the engine running alone ----
  parsedAge,       \* clock steps since the last frame whose fields all
                   \* decoded, held at TicksPerSecond
  posted,          \* every command given to Filler.request, in order
  linesLeft,       \* non-empty lines the serial link still delivers
  oddLeft,         \* of these, the frames off the resting weight
  buttonRoom,      \* button events that the operator lets pile up
  \* ---- Configuration (Configuration.py) ----
  configurableItems, \* Configuration.configurableItems: the value by key
  inifile,         \* philler.ini on disk: the text by key
  cfgpc,           \* "start", "loaded", or "raised" when load failed
  setsLeft,        \* calls of Configuration.set still to come
  openFailures,    \* calls of Filler.read that could not open the port,
                   \* held at MaxOpenFailures
  \* ---- the two worker threads (Hardware.py, Sequencer.py) ----
  ser,             \* Filler.ser: "None", "open" or "closed"
  filler_stop,     \* Filler._stop, the event set by Filler.stop
  fillerpc,        \* Filler.main: "loop", "finished" (the signal was
                   \* emitted) or "raised" (left by an exception)
  seq_stop,        \* Sequencer._stop, the event set by Sequencer.stop
  seqpc            \* Sequencer.main: "loop" or "finished"

simVars == <<simulate, simulatedFootswitchLatched, simulatedStopswitch>>
rawVars == <<_stopswitch, _footswitch, _footswitchLatched>>
seqVars == <<state, seqRequests, timer, weightWithBottle, purgeCount,
             filledCount>>
obsVars == <<rising, tapped, fillStopTicks, visitPosts, fillProgress>>
engVars == <<_weight, _weights, pressureRaw, messageAge, serOut>>
lifeVars == <<filler_stop, fillerpc, seq_stop, seqpc>>
cfgVars == <<configurableItems, inifile, cfgpc, setsLeft>>
engObs  == <<parsedAge, posted, linesLeft, oddLeft, buttonRoom, lifeVars,
             cfgVars, openFailures>>
vars == <<simVars, rawVars, requests, readpc, seqVars, obsVars, engVars,
          engObs, ser>>

(***************************************************************************)
(* Hardware.py: the properties read by other threads.                      *)
(***************************************************************************)
\* Filler.footswitch (getter)
footswitch == _footswitch

\* Filler.footswitchLatched (getter)
footswitchLatched ==
  IF simulate THEN simulatedFootswitchLatched ELSE _footswitchLatched

\* Filler.stopswitch (getter)
stopswitch == IF simulate THEN simulatedStopswitch ELSE _stopswitch

\* Filler.footswitchLatched (setter)
setFootswitchLatched(val) ==
  /\ _footswitchLatched' = val
  /\ simulatedFootswitchLatched' = val

(***************************************************************************)
(* CountdownTimer.py, in sequencer ticks.                                  *)
(***************************************************************************)
\* CountdownTimer.start(milliseconds): ticks before the timer reads expired
timerStart(milliseconds) ==
  IF milliseconds <= 0 THEN 0
  ELSE LET ticks == (milliseconds + 99) \div 100
       IN  IF ticks > TimerCap THEN TimerCap ELSE ticks

\* the values the timer can have after one more wait of `tickrate`
elapsed ==
  IF timer = 0 THEN {0}
  ELSE IF timer = TimerCap THEN {TimerCap, TimerCap - 1}
  ELSE {timer - 1}

(***************************************************************************)
(* philler.py: the state handlers of FillingSequencer.  Every handler is   *)
(* one call of Sequencer._procstate; `left` is the timer after the wait    *)
(* that precedes the call, and `weight`, `stable`, `pressure` are what the *)
(* properties of Filler return to the reads the handler makes.             *)
(***************************************************************************)
\* a variant of getRequest that returns the newest event
getRequest_newest ==
  IF seqRequests # <<>> THEN seqRequests[Len(seqRequests)] ELSE "None"

\* FillingSequencer.getRequest: the button returned
getRequest == IF seqRequests # <<>> THEN Head(seqRequests) ELSE "None"

\* a variant of the abort test that leaves the stop switch out
aborting_buttonsOnly(r) == r \in {"EXIT", "ABORT"}

\* the test "(req in [EXIT, ABORT]) or self.filler.stopswitch"
aborting(r) == r \in {"EXIT", "ABORT"} \/ stopswitch

\* the test "tolerance >= self.filler.weight >= -tolerance"
tared(weight) ==
  /\ getValue("TARE_TOLERANCE") >= weight
  /\ weight >= -getValue("TARE_TOLERANCE")

\* math.trunc(n / d) for integers n and d # 0
trunc(n, d) ==
  LET an == IF n < 0 THEN -n ELSE n
      ad == IF d < 0 THEN -d ELSE d
  IN  IF (n < 0) = (d < 0) THEN an \div ad ELSE -(an \div ad)

\* a variant of dispenseTime that rounds the quotient down instead of
\* toward zero
dispenseTime_floor(weightInitialFill) ==
  LET initFillTime    == getValue("FILL_INIT_DISPENSE_TIME")
      fillOffset      == getValue("DISPENSE_OFFSET")
      totalFillWeight == getValue("FILL_WEIGHT")
      weightRemaining == totalFillWeight - weightInitialFill
      n               == (weightRemaining - fillOffset) * initFillTime
      d               == weightInitialFill - fillOffset
  IN  IF d > 0 THEN n \div d ELSE (-n) \div (-d)

\* finalDispenseTime of process_FILL_INIT_FILLING_WAIT:
\* slope = (weightInitialFill - fillOffset) / initFillTime,
\* trunc((weightRemaining - fillOffset) / slope)
dispenseTime(weightInitialFill) ==
  LET initFillTime    == getValue("FILL_INIT_DISPENSE_TIME")
      fillOffset      == getValue("DISPENSE_OFFSET")
      totalFillWeight == getValue("FILL_WEIGHT")
      weightRemaining == totalFillWeight - weightInitialFill
  IN  trunc((weightRemaining - fillOffset) * initFillTime,
            weightInitialFill - fillOffset)

\* a tick counter one higher, held at MaxStopTicks
bump(n) == IF n < MaxStopTicks THEN n + 1 ELSE n

\* the end of a handler call: the state it leaves, whether it called
\* getRequest, and the requests it made of the filler, in order
\* what a fill session does before its first pulse, in the order of the
\* handlers' code: FILL_RESET_STOP reads the stop switch off (line 319),
\* FILL_PRESSURIZE posts Pressurize (line 333) and reads the pressure at
\* the target (line 336), FILL_LOAD_BOTTLE_WAIT records the bottle's
\* weight (lines 484 and 490), FILL_READY_WAIT acknowledges the latch
\* (line 517)
Milestones == <<"stop off", "Pressurize", "pressure", "weight", "pedal">>

\* the handlers that pass a milestone; they note it themselves
gateStates == { "FILL_RESET_STOP", "FILL_PRESSURIZE",
                "FILL_LOAD_BOTTLE_WAIT", "FILL_READY_WAIT" }

\* the milestones passed once the tick has seen the events of seen, in order
RECURSIVE noted(_, _)
noted(p, seen) ==
  IF seen = <<>> THEN p
  ELSE noted(IF p < Len(Milestones) /\ Milestones[p + 1] = Head(seen)
               THEN p + 1 ELSE p,
             Tail(seen))

\* the session's progress after a tick that ends in new: a session runs
\* from FILL_PREP1 until the sequencer leaves the fill states
progress(new, seen) ==
  IF new \in fillStates THEN noted(fillProgress, seen) ELSE 0

Done(new, took, tasks) ==
  /\ Len(requests) + 2 <= MaxQueue
  /\ state' = new
  /\ seqRequests' = IF took /\ seqRequests # <<>>
                      THEN Tail(seqRequests) ELSE seqRequests
  /\ requests' = requests \o tasks
  /\ tapped' = FALSE
  /\ fillStopTicks' =
       IF /\ stopswitch
          /\ state \in fillStates \cup {"FILL_TERMINATE"}
          /\ new \notin {"FILL_TERMINATE", "STANDBY"}
         THEN bump(fillStopTicks) ELSE 0
  /\ visitPosts' =
       IF state = "FILL_PRESSURIZE" /\ new = "FILL_PRESSURIZE"
         THEN LET n == visitPosts + Cardinality({i \in 1..Len(tasks) :
                                      tasks[i] = <<"PRESSURIZE", "None">>})
              IN  IF n < MaxVisitPosts THEN n ELSE MaxVisitPosts
         ELSE 0
  /\ IF state \in gateStates THEN TRUE
                              ELSE fillProgress' = progress(new, <<>>)
  /\ UNCHANGED <<engVars, engObs>>
  /\ UNCHANGED ser

\* what a handler leaves alone when it only reads the filler
hwSame == UNCHANGED <<simVars, rawVars, readpc, rising>>
\* what a handler leaves alone when it writes the latch
latchSame == UNCHANGED <<simulate, simulatedStopswitch, _stopswitch,
                         _footswitch, readpc, rising>>
fillSame == UNCHANGED <<weightWithBottle, purgeCount, filledCount>>

process_UNINIT(left) ==
  /\ Done("STANDBY", FALSE, <<>>)
  /\ timer' = left /\ fillSame /\ hwSame

\* a variant of process_STANDBY that vents when it consumes an Exit event
process_STANDBY_ventOnExit(left) ==
  LET r == getRequest
  IN  /\ Done(IF r = "MAIN_ENTER_FILL" THEN "FILL_PREP1"
              ELSE IF r = "MAIN_ENTER_CLEAN" THEN "CLEAN"
              ELSE IF r = "MAIN_ENTER_DIAGNOSTICS" THEN "DIAGNOSTICS"
              ELSE state, TRUE, IF r = "EXIT" THEN <<VENT>> ELSE <<>>)
      /\ timer' = left /\ fillSame /\ hwSame

process_STANDBY(left) ==
  LET r == getRequest
  IN  /\ Done(IF r = "MAIN_ENTER_FILL" THEN "FILL_PREP1"
              ELSE IF r = "MAIN_ENTER_CLEAN" THEN "CLEAN"
              ELSE IF r = "MAIN_ENTER_DIAGNOSTICS" THEN "DIAGNOSTICS"
              ELSE state, TRUE, <<>>)
      /\ timer' = left /\ fillSame /\ hwSame

process_DIAGNOSTICS(left) ==
  LET r  == getRequest
      s1 == IF r = "EXIT" THEN "STANDBY" ELSE state
      t1 == IF r = "DIAG_PRESSURE_ON" THEN <<PRESSURIZE>> ELSE <<>>
      t2 == IF r = "DIAG_PRESSURE_OFF" THEN <<VENT>> ELSE <<>>
      t3 == IF r = "DIAG_DISPENSE" THEN <<DISPENSE(diagDispense)>> ELSE <<>>
      s2 == IF r = "DIAG_SETUP" THEN "SETUP" ELSE s1
  IN  /\ Done(s2, TRUE, t1 \o t2 \o t3)
      /\ timer' = left /\ fillSame /\ hwSame

process_SETUP(left) ==
  LET r == getRequest
  IN  /\ Done(IF r = "EXIT" THEN "DIAGNOSTICS" ELSE state, TRUE, <<>>)
      /\ timer' = left /\ fillSame /\ hwSame

process_FILL_PREP1(left) ==
  LET r  == getRequest
      s1 == IF r = "FILL_NEXT" THEN "FILL_PREP2" ELSE state
      s2 == IF aborting(r) THEN "FILL_TERMINATE" ELSE s1
  IN  /\ Done(s2, TRUE, <<>>)
      /\ timer' = left /\ fillSame /\ hwSame

process_FILL_PREP2(left) ==
  LET r  == getRequest
      s1 == IF r = "FILL_NEXT" THEN "FILL_RESET_STOP" ELSE state
      s2 == IF aborting(r) THEN "FILL_TERMINATE" ELSE s1
  IN  /\ Done(s2, TRUE, <<>>)
      /\ timer' = left /\ fillSame /\ hwSame

process_FILL_RESET_STOP(left) ==
  LET s1 == IF ~stopswitch THEN "FILL_PRESSURIZE" ELSE state
      r  == getRequest
      s2 == IF aborting(r) THEN "FILL_TERMINATE" ELSE s1
  IN  /\ Done(s2, TRUE, <<>>)
      /\ fillProgress' =
           progress(s2, IF ~stopswitch THEN <<"stop off">> ELSE <<>>)
      /\ timer' = left /\ fillSame /\ hwSame

process_FILL_PRESSURIZE(left, pressure) ==
  LET s1 == IF pressure >= getValue("FILL_PRESSURE")
              THEN "FILL_PURGE_SETUP" ELSE state
      r  == getRequest
      s2 == IF aborting(r) THEN "FILL_TERMINATE" ELSE s1
  IN  /\ Done(s2, TRUE, <<PRESSURIZE>>)
      /\ fillProgress' =
           progress(s2, <<"Pressurize">> \o
                        (IF pressure >= getValue("FILL_PRESSURE")
                           THEN <<"pressure">> ELSE <<>>))
      /\ timer' = left /\ fillSame /\ hwSame

process_FILL_PURGE_INIT(left) ==
  /\ Done("FILL_PURGE_SETUP", FALSE, <<>>)
  /\ setFootswitchLatched(FALSE)
  /\ purgeCount' = 0
  /\ timer' = left
  /\ UNCHANGED <<weightWithBottle, filledCount>>
  /\ latchSame

\* a variant of process_FILL_PURGE_SETUP whose limit test lets the count
\* pass the limit by one
process_FILL_PURGE_SETUP_pastLimit(left) ==
  LET latched   == footswitchLatched
      maxPurges == getValue("PURGE_MAX_COUNT")
      purge     == latched /\ ~(purgeCount > maxPurges)
      r         == getRequest
      s1        == IF purge THEN "FILL_PURGE_WAIT" ELSE state
      s2        == IF r = "FILL_NEXT" THEN "FILL_PURGE_CLEAR_WAIT" ELSE s1
      s3        == IF aborting(r) THEN "FILL_TERMINATE" ELSE s2
  IN  /\ IF latched /\ purgeCount > maxPurges
           THEN /\ Done("FILL_PURGE_RESET_WAIT", FALSE, <<>>)
                /\ timer' = left
                /\ purgeCount' = purgeCount
           ELSE /\ Done(s3, TRUE,
                        IF purge THEN <<DISPENSE(getValue("PURGE_TIME"))>>
                                 ELSE <<>>)
                /\ timer' = IF purge THEN timerStart(1000) ELSE left
                /\ purgeCount' = IF purge THEN purgeCount + 1 ELSE purgeCount
      /\ IF latched THEN setFootswitchLatched(FALSE)
                    ELSE UNCHANGED <<_footswitchLatched,
                                     simulatedFootswitchLatched>>
      /\ UNCHANGED <<weightWithBottle, filledCount>>
      /\ latchSame

process_FILL_PURGE_SETUP(left) ==
  LET latched   == footswitchLatched
      maxPurges == getValue("PURGE_MAX_COUNT")
      purge     == latched /\ ~(purgeCount >= maxPurges)
      r         == getRequest
      s1        == IF purge THEN "FILL_PURGE_WAIT" ELSE state
      s2        == IF r = "FILL_NEXT" THEN "FILL_PURGE_CLEAR_WAIT" ELSE s1
      s3        == IF aborting(r) THEN "FILL_TERMINATE" ELSE s2
  IN  /\ IF latched /\ purgeCount >= maxPurges
           THEN \* the early return: nothing else of the handler runs
                /\ Done("FILL_PURGE_RESET_WAIT", FALSE, <<>>)
                /\ timer' = left
                /\ purgeCount' = purgeCount
           ELSE /\ Done(s3, TRUE,
                        IF purge THEN <<DISPENSE(getValue("PURGE_TIME"))>>
                                 ELSE <<>>)
                /\ timer' = IF purge THEN timerStart(1000) ELSE left
                /\ purgeCount' = IF purge THEN purgeCount + 1 ELSE purgeCount
      /\ IF latched THEN setFootswitchLatched(FALSE)
                    ELSE UNCHANGED <<_footswitchLatched,
                                     simulatedFootswitchLatched>>
      /\ UNCHANGED <<weightWithBottle, filledCount>>
      /\ latchSame

process_FILL_PURGE_WAIT(left) ==
  LET s1 == IF left = 0 THEN "FILL_PURGE_SETUP" ELSE state
      r  == getRequest
      s2 == IF aborting(r) THEN "FILL_TERMINATE" ELSE s1
  IN  /\ Done(s2, TRUE, <<>>)
      /\ IF left = 0 THEN setFootswitchLatched(FALSE)
                     ELSE UNCHANGED <<_footswitchLatched,
                                      simulatedFootswitchLatched>>
      /\ timer' = left /\ fillSame
      /\ latchSame

process_FILL_PURGE_CLEAR_WAIT(left, weight) ==
  LET s1 == IF tared(weight) THEN "FILL_LOAD_BOTTLE" ELSE state
      r  == getRequest
      s2 == IF aborting(r) THEN "FILL_TERMINATE" ELSE s1
  IN  /\ Done(s2, TRUE, <<>>)
      /\ timer' = left /\ fillSame /\ hwSame

\* a variant of process_FILL_PURGE_RESET_WAIT that does not wait for the
\* scale
process_FILL_PURGE_RESET_WAIT_untared(left, weight) ==
  LET r  == getRequest
      s2 == IF aborting(r) THEN "FILL_TERMINATE" ELSE "FILL_PURGE_INIT"
  IN  /\ Done(s2, TRUE, <<>>)
      /\ timer' = left /\ fillSame /\ hwSame

process_FILL_PURGE_RESET_WAIT(left, weight) ==
  LET s1 == IF tared(weight) THEN "FILL_PURGE_INIT" ELSE state
      r  == getRequest
      s2 == IF aborting(r) THEN "FILL_TERMINATE" ELSE s1
  IN  /\ Done(s2, TRUE, <<>>)
      /\ timer' = left /\ fillSame /\ hwSame

process_FILL_CLEAR_BOTTLE(left, weight) ==
  LET s1 == IF tared(weight) THEN "FILL_LOAD_BOTTLE" ELSE state
      r  == getRequest
      s2 == IF aborting(r) THEN "FILL_TERMINATE" ELSE s1
  IN  /\ Done(s2, TRUE, <<>>)
      /\ timer' = left /\ fillSame /\ hwSame

process_FILL_LOAD_BOTTLE(left, weight) ==
  LET s1 == IF weight >= getValue("BOTTLE_MIN_WEIGHT")
              THEN "FILL_LOAD_BOTTLE_WAIT" ELSE state
      r  == getRequest
      s2 == IF aborting(r) THEN "FILL_TERMINATE" ELSE s1
  IN  /\ Done(s2, TRUE, <<>>)
      /\ timer' = left /\ fillSame /\ hwSame

\* `weight` is the read compared with the minimum, `recorded` the read
\* stored on the stable path, `skipped` the read stored on FILL_NEXT
process_FILL_LOAD_BOTTLE_WAIT(left, stable, weight, recorded, skipped) ==
  LET loaded == stable /\ weight >= getValue("BOTTLE_MIN_WEIGHT")
      s1 == IF loaded THEN "FILL_READY_SETUP" ELSE state
      r  == getRequest
      s2 == IF r = "FILL_NEXT" THEN "FILL_READY_SETUP" ELSE s1
      s3 == IF aborting(r) THEN "FILL_TERMINATE" ELSE s2
  IN  /\ Done(s3, TRUE, <<>>)
      /\ weightWithBottle' = IF r = "FILL_NEXT" THEN skipped
                             ELSE IF loaded THEN recorded
                             ELSE weightWithBottle
      /\ fillProgress' =
           progress(s3, IF r = "FILL_NEXT" \/ loaded THEN <<"weight">>
                                                     ELSE <<>>)
      /\ timer' = left
      /\ UNCHANGED <<purgeCount, filledCount>>
      /\ hwSame

process_FILL_READY_SETUP(left) ==
  LET r  == getRequest
      s2 == IF aborting(r) THEN "FILL_TERMINATE" ELSE "FILL_READY_WAIT"
  IN  /\ Done(s2, TRUE, <<>>)
      /\ _footswitch' = FALSE     \* self.filler.footswitch = False
      /\ timer' = left /\ fillSame
      /\ UNCHANGED <<simVars, _stopswitch, _footswitchLatched, readpc, rising>>

\* a variant of process_FILL_READY_WAIT that starts the fill without
\* waiting for the pedal
process_FILL_READY_WAIT_noPedal(left) ==
  LET latched == footswitchLatched
      s1 == "FILL_INIT_FILLING"
      r  == getRequest
      s2 == IF aborting(r) THEN "FILL_TERMINATE" ELSE s1
  IN  /\ Done(s2, TRUE, <<>>)
      /\ IF latched THEN setFootswitchLatched(FALSE)
                    ELSE UNCHANGED <<_footswitchLatched,
                                     simulatedFootswitchLatched>>
      /\ fillProgress' = progress(s2, IF latched THEN <<"pedal">> ELSE <<>>)
      /\ timer' = left /\ fillSame
      /\ latchSame

process_FILL_READY_WAIT(left) ==
  LET latched == footswitchLatched
      s1 == IF latched THEN "FILL_INIT_FILLING" ELSE state
      r  == getRequest
      s2 == IF aborting(r) THEN "FILL_TERMINATE" ELSE s1
  IN  /\ Done(s2, TRUE, <<>>)
      /\ IF latched THEN setFootswitchLatched(FALSE)
                    ELSE UNCHANGED <<_footswitchLatched,
                                     simulatedFootswitchLatched>>
      /\ fillProgress' = progress(s2, IF latched THEN <<"pedal">> ELSE <<>>)
      /\ timer' = left /\ fillSame
      /\ latchSame

process_FILL_INIT_FILLING(left) ==
  LET initFillTime == getValue("FILL_INIT_DISPENSE_TIME")
  IN  /\ Done("FILL_INIT_FILLING_WAIT", FALSE, <<DISPENSE(initFillTime)>>)
      /\ timer' = timerStart(initFillTime)
      /\ fillSame /\ hwSame

\* a variant of process_FILL_INIT_FILLING_WAIT that takes DISPENSE_OFFSET
\* for the least acceptable first pulse
process_FILL_INIT_FILLING_WAIT_offsetMin(left, stable, weight) ==
  LET settled           == left = 0 /\ stable
      initFillMin       == getValue("DISPENSE_OFFSET")
      fillOffset        == getValue("DISPENSE_OFFSET")
      weightInitialFill == weight - weightWithBottle
      r                 == getRequest
  IN  /\ IF settled /\ weightInitialFill < initFillMin
           THEN /\ Done("FILL_INIT_FILLING_FAILED", FALSE, <<>>)
                /\ timer' = left
           ELSE IF settled
           THEN /\ weightInitialFill # fillOffset
                /\ Done(IF aborting(r) THEN "FILL_TERMINATE"
                                       ELSE "FILL_FILLING_WAIT",
                        TRUE, <<DISPENSE(dispenseTime(weightInitialFill))>>)
                /\ timer' = timerStart(dispenseTime(weightInitialFill))
           ELSE /\ Done(IF aborting(r) THEN "FILL_TERMINATE" ELSE state,
                        TRUE, <<>>)
                /\ timer' = left
      /\ UNCHANGED <<weightWithBottle, purgeCount, filledCount>>
      /\ hwSame

\* a variant of process_FILL_INIT_FILLING_WAIT that does not wait for the
\* timer of the first pulse
process_FILL_INIT_FILLING_WAIT_noTimer(left, stable, weight) ==
  LET settled           == stable
      initFillMin       == getValue("FILL_INIT_DISPENSE_MIN")
      fillOffset        == getValue("DISPENSE_OFFSET")
      weightInitialFill == weight - weightWithBottle
      r                 == getRequest
  IN  /\ IF settled /\ weightInitialFill < initFillMin
           THEN /\ Done("FILL_INIT_FILLING_FAILED", FALSE, <<>>)
                /\ timer' = left
           ELSE IF settled
           THEN /\ weightInitialFill # fillOffset
                /\ Done(IF aborting(r) THEN "FILL_TERMINATE"
                                       ELSE "FILL_FILLING_WAIT",
                        TRUE, <<DISPENSE(dispenseTime(weightInitialFill))>>)
                /\ timer' = timerStart(dispenseTime(weightInitialFill))
           ELSE /\ Done(IF aborting(r) THEN "FILL_TERMINATE" ELSE state,
                        TRUE, <<>>)
                /\ timer' = left
      /\ UNCHANGED <<weightWithBottle, purgeCount, filledCount>>
      /\ hwSame

process_FILL_INIT_FILLING_WAIT(left, stable, weight) ==
  LET settled           == left = 0 /\ stable
      initFillMin       == getValue("FILL_INIT_DISPENSE_MIN")
      fillOffset        == getValue("DISPENSE_OFFSET")
      weightInitialFill == weight - weightWithBottle
      r                 == getRequest
  IN  /\ IF settled /\ weightInitialFill < initFillMin
           THEN \* the early return: nothing else of the handler runs
                /\ Done("FILL_INIT_FILLING_FAILED", FALSE, <<>>)
                /\ timer' = left
           ELSE IF settled
           THEN /\ weightInitialFill # fillOffset   \* slope is not zero
                /\ Done(IF aborting(r) THEN "FILL_TERMINATE"
                                       ELSE "FILL_FILLING_WAIT",
                        TRUE, <<DISPENSE(dispenseTime(weightInitialFill))>>)
                /\ timer' = timerStart(dispenseTime(weightInitialFill))
           ELSE /\ Done(IF aborting(r) THEN "FILL_TERMINATE" ELSE state,
                        TRUE, <<>>)
                /\ timer' = left
      /\ UNCHANGED <<weightWithBottle, purgeCount, filledCount>>
      /\ hwSame

process_FILL_INIT_FILLING_FAILED(left) ==
  LET r  == getRequest
      s1 == IF r = "FILL_NEXT" THEN "FILL_TERMINATE" ELSE state
      s2 == IF aborting(r) THEN "FILL_TERMINATE" ELSE s1
  IN  /\ Done(s2, TRUE, <<>>)
      /\ timer' = left /\ fillSame /\ hwSame

\* a variant of process_FILL_FILLING_WAIT that wants more than the fill
\* weight
process_FILL_FILLING_WAIT_strict(left, stable, weight) ==
  LET settled           == left = 0 /\ stable
      desiredFillWeight == getValue("FILL_WEIGHT")
      actualWeight      == weight - weightWithBottle
      filled            == settled /\ actualWeight > desiredFillWeight
      s1 == IF filled THEN "FILL_CLEAR_BOTTLE"
            ELSE IF settled THEN "FILL_FILLING_FAILED" ELSE state
      r  == getRequest
      s2 == IF aborting(r) THEN "FILL_TERMINATE" ELSE s1
  IN  /\ filled => filledCount < MaxFilled
      /\ Done(s2, TRUE, <<>>)
      /\ filledCount' = IF filled THEN filledCount + 1 ELSE filledCount
      /\ timer' = left
      /\ UNCHANGED <<weightWithBottle, purgeCount>>
      /\ hwSame

process_FILL_FILLING_WAIT(left, stable, weight) ==
  LET settled           == left = 0 /\ stable
      desiredFillWeight == getValue("FILL_WEIGHT")
      actualWeight      == weight - weightWithBottle
      filled            == settled /\ actualWeight >= desiredFillWeight
      s1 == IF filled THEN "FILL_CLEAR_BOTTLE"
            ELSE IF settled THEN "FILL_FILLING_FAILED" ELSE state
      r  == getRequest
      s2 == IF aborting(r) THEN "FILL_TERMINATE" ELSE s1
  IN  /\ filled => filledCount < MaxFilled
      /\ Done(s2, TRUE, <<>>)
      /\ filledCount' = IF filled THEN filledCount + 1 ELSE filledCount
      /\ timer' = left
      /\ UNCHANGED <<weightWithBottle, purgeCount>>
      /\ hwSame

process_FILL_FILLING_FAILED(left) ==
  LET s1 == IF stopswitch THEN "FILL_TERMINATE" ELSE state
      r  == getRequest
      s2 == IF aborting(r) THEN "FILL_TERMINATE" ELSE s1
  IN  /\ Done(s2, TRUE, <<>>)
      /\ timer' = left /\ fillSame /\ hwSame

\* a variant of process_FILL_TERMINATE that vents before it aborts
process_FILL_TERMINATE_ventFirst(left) ==
  /\ Done("STANDBY", FALSE, <<VENT, ABORT>>)
  /\ timer' = left /\ fillSame /\ hwSame

process_FILL_TERMINATE(left) ==
  /\ Done("STANDBY", FALSE, <<ABORT, VENT>>)
  /\ timer' = left /\ fillSame /\ hwSame

\* a variant of process_CLEAN that only vents on Exit
process_CLEAN_ventOnly(left) ==
  LET cleanDispenseTime == getValue("CLEAN_DISPENSE")
      r  == getRequest
      t1 == IF r = "EXIT" THEN <<VENT>> ELSE <<>>
      t2 == IF r = "CLEAN_PRESSURE_ON" THEN <<PRESSURIZE>> ELSE <<>>
      t3 == IF r = "CLEAN_PRESSURE_OFF" THEN <<VENT>> ELSE <<>>
      t4 == IF r = "CLEAN_DISPENSE" THEN <<DISPENSE(cleanDispenseTime)>>
                                    ELSE <<>>
  IN  /\ Done(IF r = "EXIT" THEN "STANDBY" ELSE state, TRUE,
              t1 \o t2 \o t3 \o t4)
      /\ timer' = left /\ fillSame /\ hwSame

process_CLEAN(left) ==
  LET cleanDispenseTime == getValue("CLEAN_DISPENSE")
      r  == getRequest
      t1 == IF r = "EXIT" THEN <<ABORT, VENT>> ELSE <<>>
      t2 == IF r = "CLEAN_PRESSURE_ON" THEN <<PRESSURIZE>> ELSE <<>>
      t3 == IF r = "CLEAN_PRESSURE_OFF" THEN <<VENT>> ELSE <<>>
      t4 == IF r = "CLEAN_DISPENSE" THEN <<DISPENSE(cleanDispenseTime)>>
                                    ELSE <<>>
  IN  /\ Done(IF r = "EXIT" THEN "STANDBY" ELSE state, TRUE,
              t1 \o t2 \o t3 \o t4)
      /\ timer' = left /\ fillSame /\ hwSame

\* Sequencer._procstate: the handler of the current state, called once
\* (no transition ever enters TERMINATE, so process_TERMINATE is never called)
_procstate(left) ==
  \/ state = "UNINIT" /\ process_UNINIT(left)
  \/ state = "STANDBY" /\ process_STANDBY(left)
  \/ state = "DIAGNOSTICS" /\ process_DIAGNOSTICS(left)
  \/ state = "SETUP" /\ process_SETUP(left)
  \/ state = "FILL_PREP1" /\ process_FILL_PREP1(left)
  \/ state = "FILL_PREP2" /\ process_FILL_PREP2(left)
  \/ state = "FILL_RESET_STOP" /\ process_FILL_RESET_STOP(left)
  \/ state = "FILL_PRESSURIZE"
       /\ \E pressure \in Pressures : process_FILL_PRESSURIZE(left, pressure)
  \/ state = "FILL_PURGE_INIT" /\ process_FILL_PURGE_INIT(left)
  \/ state = "FILL_PURGE_SETUP" /\ process_FILL_PURGE_SETUP(left)
  \/ state = "FILL_PURGE_WAIT" /\ process_FILL_PURGE_WAIT(left)
  \/ state = "FILL_PURGE_CLEAR_WAIT"
       /\ \E weight \in Weights : process_FILL_PURGE_CLEAR_WAIT(left, weight)
  \/ state = "FILL_PURGE_RESET_WAIT"
       /\ \E weight \in Weights : process_FILL_PURGE_RESET_WAIT(left, weight)
  \/ state = "FILL_CLEAR_BOTTLE"
       /\ \E weight \in Weights : process_FILL_CLEAR_BOTTLE(left, weight)
  \/ state = "FILL_LOAD_BOTTLE"
       /\ \E weight \in Weights : process_FILL_LOAD_BOTTLE(left, weight)
  \/ state = "FILL_LOAD_BOTTLE_WAIT"
       /\ \E stable \in BOOLEAN, weight, recorded, skipped \in Weights :
            process_FILL_LOAD_BOTTLE_WAIT(left, stable, weight, recorded,
                                          skipped)
  \/ state = "FILL_READY_SETUP" /\ process_FILL_READY_SETUP(left)
  \/ state = "FILL_READY_WAIT" /\ process_FILL_READY_WAIT(left)
  \/ state = "FILL_INIT_FILLING" /\ process_FILL_INIT_FILLING(left)
  \/ state = "FILL_INIT_FILLING_WAIT"
       /\ \E stable \in BOOLEAN, weight \in Weights :
            process_FILL_INIT_FILLING_WAIT(left, stable, weight)
  \/ state = "FILL_INIT_FILLING_FAILED"
       /\ process_FILL_INIT_FILLING_FAILED(left)
  \/ state = "FILL_FILLING_WAIT"
       /\ \E stable \in BOOLEAN, weight \in Weights :
            process_FILL_FILLING_WAIT(left, stable, weight)
  \/ state = "FILL_FILLING_FAILED" /\ process_FILL_FILLING_FAILED(left)
  \/ state = "FILL_TERMINATE" /\ process_FILL_TERMINATE(left)
  \/ state = "CLEAN" /\ process_CLEAN(left)

\* one iteration of Sequencer.main: wait `tickrate`, then run the machine once
run == \E left \in elapsed : _procstate(left)

\* FillingSequencer.request, called by MainWindow.buttonClicked
request(button) ==
  /\ Len(seqRequests) < buttonRoom
  /\ seqRequests' = Append(seqRequests, button)
  /\ UNCHANGED <<simVars, rawVars, requests, readpc, obsVars>>
  /\ UNCHANGED <<state, timer, weightWithBottle, purgeCount, filledCount>>
  /\ UNCHANGED <<engVars, engObs>>
  /\ UNCHANGED ser

(***************************************************************************)
(* Hardware.py: the engine thread beside the sequencer, one call of        *)
(* Filler.read per tick.  Of a frame only the two switch flags are kept    *)
(* (see Sensors above); the decoding of the other fields and the bytes     *)
(* written to the port are followed by readLine further down.              *)
(***************************************************************************)
\* Filler.getRequest and the write to the serial port: the queue afterwards
getRequestOf(queue) == IF queue # <<>> THEN Tail(queue) ELSE queue

\* Filler.read, lines 286-323 and 332-354, when readline returns nothing
\* (the 50 ms timeout): only the pending request is sent.  A call that gets
\* as far as readline has the port open: lines 279-284 open it first if it
\* was not, and return when that fails
readEmpty ==
  /\ readpc = "idle"
  /\ requests' = getRequestOf(requests)
  /\ UNCHANGED <<simVars, rawVars, readpc, seqVars, obsVars>>
  /\ UNCHANGED <<engVars, engObs>>
  /\ ser' = "open"

\* a variant of readFrame that goes on to write the latch whatever it reads
readFrame_noLatchTest(stop, foot) ==
  /\ readpc = "idle"
  /\ _stopswitch' = stop
  /\ _footswitch' = foot
  /\ readpc' = "latch"
  /\ rising' = (~_footswitch /\ foot)
  /\ UNCHANGED requests
  /\ UNCHANGED <<simVars, _footswitchLatched, seqVars, tapped, fillStopTicks,
                 visitPosts, fillProgress>>
  /\ UNCHANGED <<engVars, engObs>>
  /\ ser' = "open"

\* Filler.read on a well-formed frame, up to the test of line 322; when the
\* latch reads set the call ends here, sending the pending request
readFrame(stop, foot) ==
  /\ readpc = "idle"
  /\ _stopswitch' = stop
  /\ _footswitch' = foot
  /\ IF footswitchLatched = FALSE
       THEN /\ readpc' = "latch"
            /\ rising' = (~_footswitch /\ foot)
            /\ UNCHANGED requests
       ELSE /\ readpc' = "idle"
            /\ rising' = FALSE
            /\ requests' = getRequestOf(requests)
  /\ UNCHANGED <<simVars, _footswitchLatched, seqVars, tapped, fillStopTicks,
                 visitPosts, fillProgress>>
  /\ UNCHANGED <<engVars, engObs>>
  /\ ser' = "open"

\* Filler.read, line 323 (the latch was read clear) and lines 332-354
readLatch ==
  /\ readpc = "latch"
  /\ setFootswitchLatched(footswitch)
  /\ requests' = getRequestOf(requests)
  /\ readpc' = "idle"
  /\ rising' = FALSE
  /\ tapped' = (tapped \/ (state = "FILL_READY_WAIT" /\ footswitch))
  /\ UNCHANGED <<simulate, simulatedStopswitch, _stopswitch, _footswitch>>
  /\ UNCHANGED <<seqVars, fillStopTicks, visitPosts, fillProgress>>
  /\ UNCHANGED <<engVars, engObs>>
  /\ ser' = "open"

read ==
  \/ readEmpty
  \/ \E stop, foot \in BOOLEAN : readFrame(stop, foot)
  \/ readLatch

\* a variant of readNoPort that takes a request off the queue before it
\* returns
readNoPort_drops ==
  /\ ser = "None"
  /\ readpc = "idle"
  /\ openFailures' = IF openFailures < MaxOpenFailures THEN openFailures + 1
                                                       ELSE openFailures
  /\ requests' = getRequestOf(requests)
  /\ UNCHANGED <<simVars, rawVars, readpc, seqVars, obsVars, engVars,
                 parsedAge, posted, linesLeft, oddLeft, buttonRoom, lifeVars,
                 cfgVars, ser>>

\* Filler.read, lines 279-284, when the port is not open and
\* serial.Serial raises SerialException: the call returns at once
readNoPort ==
  /\ ser = "None"
  /\ readpc = "idle"
  /\ openFailures' = IF openFailures < MaxOpenFailures THEN openFailures + 1
                                                       ELSE openFailures
  /\ UNCHANGED requests
  /\ UNCHANGED <<simVars, rawVars, readpc, seqVars, obsVars, engVars,
                 parsedAge, posted, linesLeft, oddLeft, buttonRoom, lifeVars,
                 cfgVars, ser>>

(***************************************************************************)
(* Hardware.py: the simulated switches, wired to the status-bar buttons of *)
(* MainWindow only when the program was started with --simulate.           *)
(***************************************************************************)
simSame == UNCHANGED <<rawVars, requests, readpc, seqVars, obsVars, engVars,
                       engObs, ser>>

simulateFootswitch(val) ==
  /\ simulate
  /\ simulate' = TRUE
  /\ simulatedFootswitchLatched' = val
  /\ UNCHANGED simulatedStopswitch
  /\ simSame

\* a variant of simulateStopSwitch that sets the switch when asked to toggle
simulateStopSwitch_set(val, toggle) ==
  /\ simulate
  /\ simulate' = TRUE
  /\ simulatedStopswitch' = IF toggle THEN TRUE ELSE val
  /\ UNCHANGED simulatedFootswitchLatched
  /\ simSame

simulateStopSwitch(val, toggle) ==
  /\ simulate
  /\ simulate' = TRUE
  /\ simulatedStopswitch' = IF toggle THEN ~simulatedStopswitch ELSE val
  /\ UNCHANGED simulatedFootswitchLatched
  /\ simSame

\* MainWindow.updateState: the panel shown for a state of the sequencer
\* (FILL_TERMINATE and UNINIT select no panel: the one shown stays)
panelOf(s) ==
  IF s \in {"UNINIT", "STANDBY"} THEN "MAIN"
  ELSE IF s = "DIAGNOSTICS" THEN "DIAG"
  ELSE IF s = "SETUP" THEN "SETUP"
  ELSE IF s = "CLEAN" THEN "CLEAN"
  ELSE "FILL"

\* MainWindow.buttonClicked: the button events each panel's widgets send
buttonsOf(panel) ==
  IF panel = "MAIN"
    THEN {"MAIN_ENTER_FILL", "MAIN_ENTER_CLEAN", "MAIN_ENTER_DIAGNOSTICS"}
  ELSE IF panel = "FILL" THEN {"EXIT", "FILL_NEXT", "ABORT"}
  ELSE IF panel = "CLEAN"
    THEN {"EXIT", "CLEAN_PRESSURE_ON", "CLEAN_PRESSURE_OFF", "CLEAN_DISPENSE"}
  ELSE IF panel = "DIAG"
    THEN {"EXIT", "DIAG_PRESSURE_ON", "DIAG_PRESSURE_OFF", "DIAG_DISPENSE",
          "DIAG_SETUP"}
  ELSE {"EXIT"}

\* MainWindow.buttonClicked: the operator presses a widget of the panel shown
buttonClicked == \E button \in buttonsOf(panelOf(state)) : request(button)

\* MainWindow.buttonClicked: the operator presses a simulated-I/O button of
\* the status bar
simButtonClicked ==
  \/ simulateFootswitch(TRUE)
  \/ simulateStopSwitch(FALSE, TRUE)

(***************************************************************************)
(* The program: Filler.__init__ and FillingSequencer.__init__, then the    *)
(* engine thread, the sequencer thread and the operator.                   *)
(***************************************************************************)
Init ==
  /\ simulate \in BOOLEAN
  /\ simulatedFootswitchLatched = FALSE
  /\ simulatedStopswitch = FALSE
  /\ _stopswitch = FALSE
  /\ _footswitch = FALSE
  /\ _footswitchLatched = FALSE
  /\ requests = <<>>
  /\ readpc = "idle"
  /\ state = "UNINIT"
  /\ seqRequests = <<>>
  /\ timer = 0
  /\ weightWithBottle = 0
  /\ purgeCount = 0
  /\ filledCount = 0
  /\ rising = FALSE
  /\ tapped = FALSE
  /\ fillStopTicks = 0
  /\ visitPosts = 0
  /\ fillProgress = 0
  /\ _weight = 0
  /\ _weights = <<>>
  /\ pressureRaw = 0
  /\ messageAge = TicksPerSecond   \* lastmessage = 0, the epoch
  /\ serOut = <<>>
  /\ parsedAge = TicksPerSecond
  /\ posted = <<>>
  /\ configurableItems = [key \in CFG |-> KeyError]
  /\ inifile = [key \in CFG |-> Missing]
  /\ cfgpc = "start"
  /\ ser = "None"
  /\ openFailures = 0
  /\ filler_stop = FALSE
  /\ fillerpc = "loop"
  /\ seq_stop = FALSE
  /\ seqpc = "loop"

\* the engine thread, the sequencer thread and the operator at the panels
Next == run \/ read \/ buttonClicked

\* the same with the simulated-I/O buttons of the status bar
NextSim == Next \/ simButtonClicked

\* the program started on the machine, without --simulate
InitMachine ==
  Init /\ ~simulate /\ linesLeft = 0 /\ oddLeft = 0 /\ buttonRoom = MaxButtons /\ setsLeft = 0
Spec == InitMachine /\ [][Next]_vars

\* the program started with --simulate
InitSimulate ==
  Init /\ simulate /\ linesLeft = 0 /\ oddLeft = 0 /\ buttonRoom = MaxButtons /\ setsLeft = 0
SimSpec == InitSimulate /\ [][NextSim]_vars

\* both threads loop for as long as the program runs (QThread main loops
\* of Filler.main and Sequencer.main)
FairSpec == Spec /\ WF_vars(run) /\ WF_vars(read)

(***************************************************************************)
(* The sequencer and an operator who is ahead of it by one event more: the *)
(* engine sends the commands but the serial link delivers no frame, so     *)
(* both switches stay off.                                                 *)
(***************************************************************************)
ButtonNext == run \/ readEmpty \/ buttonClicked
InitButton ==
  /\ Init /\ ~simulate /\ buttonRoom = MaxButtons + 1 /\ setsLeft = 0
  /\ linesLeft = 0 /\ oddLeft = 0
ButtonSpec == InitButton /\ [][ButtonNext]_vars

(***************************************************************************)
(* Hardware.py: the engine thread alone.  Filler.read is followed through  *)
(* every field it decodes and every byte it writes; the sequencer does not *)
(* run, commands come from any caller of Filler.request, and nothing else  *)
(* writes the latch, so one call of Filler.read is one step.  A line is    *)
(* given as what readline returned and, for a line that matches the frame  *)
(* pattern of line 295, the five groups of the match (the digits of the    *)
(* weight as hundredths of a gram, those of the pressure as their number). *)
(***************************************************************************)
emptyLine == [kind |-> "empty", posneg |-> "", weightStr |-> 0,
              pressureStr |-> 0, stopswitchStr |-> "s", footswitchStr |-> "f"]
garbageLine == [kind |-> "garbage", posneg |-> "", weightStr |-> 0,
                pressureStr |-> 0, stopswitchStr |-> "s",
                footswitchStr |-> "f"]
frameLine(posneg, weightStr, pressureStr, stopswitchStr, footswitchStr) ==
  [kind |-> "frame", posneg |-> posneg, weightStr |-> weightStr,
   pressureStr |-> pressureStr, stopswitchStr |-> stopswitchStr,
   footswitchStr |-> footswitchStr]

\* float(posneg + weightStr) of lines 303-306: Python accepts one sign at
\* most, and a ValueError leaves -99.99
decodable(posneg) == posneg \in {"", "+", "-"}
decodeWeight(posneg, weightStr) ==
  IF posneg \in {"", "+"} THEN weightStr
  ELSE IF posneg = "-" THEN -weightStr
  ELSE -9999

\* a variant of weightsAfter that trims the newest sample
weightsAfter_dropNewest(weights, val) ==
  LET appended == Append(weights, val)
  IN  IF Len(appended) > maxweights
        THEN SubSeq(appended, 1, maxweights)
        ELSE appended

\* the weight setter: the history after val was appended and trimmed
weightsAfter(weights, val) ==
  LET appended == Append(weights, val)
  IN  IF Len(appended) > maxweights
        THEN SubSeq(appended, Len(appended) - maxweights + 1, Len(appended))
        ELSE appended

\* a variant of stableOf that wants the samples strictly inside the band
stableOf_strictBand(weights) ==
  IF Len(weights) > 2
    THEN LET latest == weights[Len(weights)]
         IN  \A i \in 1..(Len(weights) - 1) :
               ~(weights[i] >= latest + 10) /\ ~(weights[i] <= latest - 10)
    ELSE TRUE

\* a variant of stableOf that starts to compare with two samples
stableOf_fromTwo(weights) ==
  IF Len(weights) > 1
    THEN LET latest == weights[Len(weights)]
         IN  \A i \in 1..(Len(weights) - 1) :
               ~(weights[i] > latest + 10) /\ ~(weights[i] < latest - 10)
    ELSE TRUE

\* Filler.stable without simulation, for a weight history
stableOf(weights) ==
  IF Len(weights) > 2
    THEN LET latest == weights[Len(weights)]
         IN  \A i \in 1..(Len(weights) - 1) :
               ~(weights[i] > latest + 10) /\ ~(weights[i] < latest - 10)
    ELSE TRUE

\* Filler.connected
connected == messageAge < TicksPerSecond

\* the bytes of lines 336-354 for a task of the queue
written(task) ==
  IF task[1] = "PRESSURIZE" THEN "P_"
  ELSE IF task[1] = "VENT" THEN "p_"
  ELSE IF task[1] = "DISPENSE" THEN ToString(task[2]) \o "_"
  ELSE "0_"

\* a variant of sendRequest that takes the newest request
sendRequest_newest(queue) ==
  IF queue # <<>> THEN <<written(queue[Len(queue)])>> ELSE <<>>

\* a variant of sendRequest that sends every pending request
sendRequest_all(queue) == [i \in 1..Len(queue) |-> written(queue[i])]

\* lines 332-354: what one call of Filler.read writes to the port, for the
\* queue it finds
sendRequest(queue) ==
  IF queue # <<>> THEN <<written(Head(queue))>> ELSE <<>>

\* the resting weight of the scale in the behaviours of the engine alone
RestWeight == 5000

\* one call of Filler.read for the line that readline returns
readLine(line) ==
  LET val    == decodeWeight(line.posneg, line.weightStr)
      foot   == (line.footswitchStr = "F")
      parsed == line.kind = "frame"
  IN  /\ readpc = "idle"
      /\ IF line.kind = "empty"
           THEN UNCHANGED <<messageAge, linesLeft>>
           ELSE /\ linesLeft > 0
                /\ linesLeft' = linesLeft - 1
                /\ messageAge' = 0
      /\ IF parsed
           THEN /\ _weight' = val
                /\ _weights' = weightsAfter(_weights, val)
                /\ pressureRaw' = line.pressureStr
                /\ _stopswitch' = (line.stopswitchStr = "S")
                /\ _footswitch' = foot
                /\ IF footswitchLatched = FALSE
                     THEN /\ _footswitchLatched' = foot
                          /\ simulatedFootswitchLatched' = foot
                     ELSE UNCHANGED <<_footswitchLatched,
                                      simulatedFootswitchLatched>>
                /\ IF val # RestWeight
                     THEN oddLeft > 0 /\ oddLeft' = oddLeft - 1
                     ELSE UNCHANGED oddLeft
           ELSE UNCHANGED <<_weight, _weights, pressureRaw, rawVars,
                            simulatedFootswitchLatched, oddLeft>>
      /\ parsedAge' = IF parsed /\ decodable(line.posneg) THEN 0
                                                           ELSE parsedAge
      /\ serOut' = serOut \o sendRequest(requests)
      /\ requests' = getRequestOf(requests)
      /\ UNCHANGED <<simulate, simulatedStopswitch, readpc, seqVars, obsVars,
                     posted, buttonRoom, cfgVars, openFailures, lifeVars>>
      /\ ser' = "open"

\* Filler.request, called by another thread
post(task) ==
  /\ Len(posted) < MaxPosted
  /\ Len(requests) < MaxQueue
  /\ requests' = Append(requests, task)
  /\ posted' = Append(posted, task)
  /\ UNCHANGED <<simVars, rawVars, readpc, seqVars, obsVars, engVars,
                 parsedAge, linesLeft, oddLeft, buttonRoom, cfgVars, openFailures, lifeVars, ser>>

\* time passes: one clock step
clock ==
  /\ messageAge' = IF messageAge < TicksPerSecond THEN messageAge + 1
                                                  ELSE messageAge
  /\ parsedAge' = IF parsedAge < TicksPerSecond THEN parsedAge + 1
                                                ELSE parsedAge
  /\ messageAge' # messageAge \/ parsedAge' # parsedAge
  /\ UNCHANGED <<simVars, rawVars, requests, readpc, seqVars, obsVars,
                 _weight, _weights, pressureRaw, serOut, posted, linesLeft,
                 oddLeft, buttonRoom, cfgVars, openFailures, lifeVars, ser>>

\* the commands posted to a running engine
PostTasks == { ABORT, PRESSURIZE, VENT, DISPENSE(0), DISPENSE(250) }
WireLines == { emptyLine, frameLine("+", RestWeight, 500, "s", "f") }
WireNext ==
  \/ \E line \in WireLines : readLine(line)
  \/ \E task \in PostTasks : post(task)
InitWire ==
  /\ Init /\ ~simulate /\ buttonRoom = MaxButtons /\ setsLeft = 0
  /\ linesLeft = MaxLines /\ oddLeft = 0
WireSpec == InitWire /\ [][WireNext]_vars

\* the lines of a serial link: frames, frames with a doubled sign, lines
\* that do not match the pattern, and the read timeout
ParseLines ==
  { frameLine(posneg, weightStr, pressureStr, stopswitchStr, footswitchStr) :
      posneg \in {"+", "-", "+-"}, weightStr \in {RestWeight, 5650},
      pressureStr \in {500, 2048}, stopswitchStr \in {"s", "S"},
      footswitchStr \in {"f", "F"} }
    \cup { garbageLine, emptyLine }
ParseNext ==
  \/ \E line \in ParseLines : readLine(line)
  \/ clock
InitParse ==
  /\ Init /\ ~simulate /\ buttonRoom = MaxButtons /\ setsLeft = 0
  /\ linesLeft = MaxLines /\ oddLeft = MaxLines
ParseSpec == InitParse /\ [][ParseNext]_vars

\* a scale at rest that a few samples leave by up to 0.11 g
HistoryWeights == { 4989, 4990, RestWeight, 5010, 5011 }
HistoryLines == { frameLine("+", w, 500, "s", "f") : w \in HistoryWeights }
HistoryNext == \E line \in HistoryLines : readLine(line)
InitHistory ==
  /\ Init /\ ~simulate /\ buttonRoom = MaxButtons /\ setsLeft = 0
  /\ linesLeft = maxweights + 2 /\ oddLeft = MaxOdd
HistorySpec == InitHistory /\ [][HistoryNext]_vars

(***************************************************************************)
(* The stop switch and the way out of a fill session.                      *)
(***************************************************************************)
\* C1: in every state of the fill group, a handler call made while the stop
\* switch reads true, or while EXIT or ABORT is the button at the head of the
\* queue, leaves the sequencer in FILL_TERMINATE
C1_UniversalAbort ==
  [][(state \in fillStates /\ aborting(getRequest) /\ run)
       => state' = "FILL_TERMINATE"]_vars

\* C2: the stop switch never reads true on two consecutive ticks that both
\* leave the sequencer in a fill state: after the second tick at the latest
\* the state is FILL_TERMINATE or STANDBY
C2_StopWithinTwoTicks == fillStopTicks <= 1

\* C2: a tick with the stop switch on has left the sequencer in a fill state
\* (the first pulse was requested and the abort is still to come)
C2_Witness ==
  /\ fillStopTicks = 1
  /\ stopswitch
  /\ state = "FILL_INIT_FILLING_WAIT"

\* C3: a fill session returns to STANDBY only from FILL_TERMINATE, on a tick
\* that appends ABORT and then VENT, and nothing else, to the requests; the
\* tick of FILL_TERMINATE always makes that return, and with the stop switch
\* on the tick of FILL_FILLING_WAIT ends in FILL_TERMINATE
C3_ReturnThroughTerminate ==
  [][/\ (state \in fillStates \cup {"FILL_TERMINATE"} /\ state' = "STANDBY")
          => /\ state = "FILL_TERMINATE"
             /\ requests' = requests \o <<ABORT, VENT>>
     /\ (state = "FILL_TERMINATE" /\ run)
          => /\ state' = "STANDBY"
             /\ requests' = requests \o <<ABORT, VENT>>
     /\ (state = "FILL_FILLING_WAIT" /\ stopswitch /\ run)
          => state' = "FILL_TERMINATE"]_vars

\* C3: the sequencer is back in STANDBY with ABORT then VENT requested, the
\* stop switch still on
C3_Witness ==
  /\ state = "STANDBY"
  /\ requests = <<ABORT, VENT>>
  /\ stopswitch

\* an ABORT stands on the queue of requests to the filler
AbortRequested == \E i \in 1..Len(requests) : requests[i] = ABORT

\* C4: in CLEAN and DIAGNOSTICS, where a dispense can have been requested,
\* once the stop switch reads true an ABORT is requested (unless the switch
\* is released first)
C4_StopAbortsMotion ==
  (stopswitch /\ state \in {"CLEAN", "DIAGNOSTICS"})
    ~> (~stopswitch \/ AbortRequested)

(***************************************************************************)
(* The foot-switch latch.                                                  *)
(***************************************************************************)
\* C5: the engine sets the latch only for a frame that moved the foot switch
\* from released to pressed
C5_LatchOnRisingEdge ==
  [][(readLatch /\ ~footswitchLatched /\ footswitchLatched') => rising]_vars

\* C6: no step of the engine thread turns the latch that readers observe
\* from true to false
C6_EngineNeverClearsLatch ==
  [][read => (footswitchLatched => footswitchLatched')]_vars

\* C7: once the engine has latched a pressed pedal in FILL_READY_WAIT the
\* latch stays set, whatever frames follow, until the sequencer runs, and
\* that run ends in FILL_INIT_FILLING unless it aborts
C7_TapNotMissed ==
  [][/\ tapped' => footswitchLatched'
     /\ (tapped /\ ~aborting(getRequest) /\ run)
          => state' = "FILL_INIT_FILLING"]_vars

\* C7: the pedal was latched in FILL_READY_WAIT and a later frame shows it
\* released, the sequencer not having run yet
C7_Witness ==
  /\ tapped
  /\ ~_footswitch
  /\ footswitchLatched
  /\ state = "FILL_READY_WAIT"

(***************************************************************************)
(* The two dispensing pulses.                                              *)
(***************************************************************************)
\* t is the quotient n / d with its fraction dropped
IsTruncOf(t, n, d) ==
  LET an == IF n < 0 THEN -n ELSE n
      ad == IF d < 0 THEN -d ELSE d
      at == IF t < 0 THEN -t ELSE t
  IN  /\ d # 0
      /\ at * ad <= an
      /\ an < (at + 1) * ad
      /\ t > 0 => (n < 0) = (d < 0)
      /\ t < 0 => (n < 0) # (d < 0)

C9_InitialShortfall ==
  [][\A left \in 0..TimerCap, stable \in BOOLEAN, weight \in Weights :
       ( /\ state = "FILL_INIT_FILLING_WAIT"
         /\ process_FILL_INIT_FILLING_WAIT(left, stable, weight)
         /\ left = 0
         /\ stable
         /\ weight - weightWithBottle < 400 )
       => /\ state' = "FILL_INIT_FILLING_FAILED"
          /\ requests' = requests]_vars

\* C9: the first pulse fell short for a bottle of 50.00 g and the only
\* Dispense that was posted, the first pulse, has been sent
C9_Witness ==
  /\ state = "FILL_INIT_FILLING_FAILED"
  /\ weightWithBottle = 5000
  /\ requests = <<>>

C11_PurgeCountBounded == purgeCount <= 5

\* C11: the limit has been reached in one fill session and the count is
\* still there after that session was ended
C11_Witness ==
  /\ purgeCount = 5
  /\ state = "STANDBY"

\* C12: a tick of FILL_PURGE_SETUP that finds the pedal latched and
\* purge_count at max_purge or above ends in FILL_PURGE_RESET_WAIT and posts
\* nothing; purge_count goes back to 0 only in FILL_PURGE_INIT, which is
\* entered only from FILL_PURGE_RESET_WAIT, on a tick that read a weight
\* within tare_tolerance of zero
C12_MaxPurgeRouting ==
  [][/\ ( /\ state = "FILL_PURGE_SETUP"
          /\ run
          /\ footswitchLatched
          /\ purgeCount >= 5 )
        => /\ state' = "FILL_PURGE_RESET_WAIT"
           /\ requests' = requests
           /\ purgeCount' = purgeCount
     /\ (purgeCount # 0 /\ purgeCount' = 0) => state = "FILL_PURGE_INIT"
     /\ (state # "FILL_PURGE_INIT" /\ state' = "FILL_PURGE_INIT")
        => state = "FILL_PURGE_RESET_WAIT"
     /\ \A left \in 0..TimerCap, weight \in Weights :
          ( /\ state = "FILL_PURGE_RESET_WAIT"
            /\ process_FILL_PURGE_RESET_WAIT(left, weight)
            /\ state' = "FILL_PURGE_INIT" )
          => (-30 <= weight /\ weight <= 30)]_vars

\* C12: the sixth pedal press was routed to FILL_PURGE_RESET_WAIT, the scale
\* has read zero, and the count is about to be reset
C12_Witness ==
  /\ state = "FILL_PURGE_INIT"
  /\ purgeCount = 5

C14_OnePerTick ==
  [][(\E line \in WireLines : readLine(line))
       => /\ Len(serOut') <= Len(serOut) + 1
          /\ Len(requests') >= Len(requests) - 1
          /\ Len(serOut') - Len(serOut) = Len(requests) - Len(requests')]_vars

\* C14: one command was written while another stayed queued
C14_Witness ==
  /\ Len(serOut) = 1
  /\ Len(posted) = 3
  /\ Len(requests) = 2

(***************************************************************************)
(* The decoding of frames.                                                 *)
(***************************************************************************)
\* C15: the pressure count held by the filler is within 0..1023 after any
\* line
C15_PressureRawClipped == pressureRaw \in 0..1023

\* C16: the weight history never holds more than 30 samples, and a frame
\* appends its weight at the tail, evicting exactly the oldest sample when
\* 30 are held already
C16_HistoryRing ==
  [][/\ Len(_weights) <= 30
     /\ \A line \in HistoryLines :
          readLine(line)
          => /\ _weights'[Len(_weights')] = line.weightStr
             /\ IF Len(_weights) < 30
                  THEN /\ Len(_weights') = Len(_weights) + 1
                       /\ \A i \in 1..Len(_weights) :
                            _weights'[i] = _weights[i]
                  ELSE /\ Len(_weights') = 30
                       /\ \A i \in 1..29 : _weights'[i] = _weights[i + 1]]_vars

\* C16: a 31st sample has arrived, the history holds 30 samples, and the
\* two samples off the resting weight that came second and third are now
\* first and second
C16_Witness ==
  /\ linesLeft = 1
  /\ Len(_weights) = 30
  /\ _weights[1] = 5011
  /\ _weights[2] = 4989
  /\ _weights[30] = RestWeight

C18_ShortHistoryStable == Len(_weights) <= 2 => stableOf(_weights)

\* C18: two samples 0.22 g apart read stable
C18_Witness ==
  /\ _weights = <<4989, 5011>>
  /\ stableOf(_weights)

\* C19: a line that does not match the frame pattern, or that matches it
\* with a sign prefix that makes the weight unparsable, leaves weight,
\* weight history, pressure count, stop switch, foot switch and latch as
\* they were
C19_MalformedDiscarded ==
  [][\A line \in ParseLines :
       ( /\ readLine(line)
         /\ \/ line.kind = "garbage"
            \/ line.kind = "frame" /\ line.posneg = "+-" )
       => UNCHANGED <<_weight, _weights, pressureRaw, _stopswitch,
                      _footswitch, _footswitchLatched>>]_vars

\* C20: once a second has passed without a successfully parsed frame,
\* connected reads false
C20_ConnectedNeedsFrames == parsedAge >= TicksPerSecond => ~connected

(***************************************************************************)
(* Simulation mode.                                                        *)
(***************************************************************************)
\* C21: with simulation on, no step of the engine thread changes the latch
\* or the stop switch that readers observe
C21_FramesIgnoredInSimulation ==
  [][(simulate /\ read)
       => /\ footswitchLatched' = footswitchLatched
          /\ stopswitch' = stopswitch]_vars

\* C22: from either value of the stop switch that the sequencer reads,
\* simulateStopSwitch(toggle=True) called twice in a row gives back that
\* value, the first call having inverted it
C22_ToggleTwice ==
  simulate
    => \A before \in BOOLEAN :
         stopswitch = before
           => ENABLED ( /\ simulateStopSwitch(FALSE, TRUE)
                        /\ stopswitch' = ~before
                        /\ (ENABLED ( /\ simulateStopSwitch(FALSE, TRUE)
                                      /\ stopswitch' = before ))' )

\* C22: the simulated stop switch reads on while the wired one is off; two
\* toggles from here give on again
C22_Witness ==
  /\ simulate
  /\ simulatedStopswitch
  /\ ~_stopswitch
  /\ stopswitch

(***************************************************************************)
(* The failure states.                                                     *)
(***************************************************************************)
\* C23: a tick of FILL_INIT_FILLING_FAILED or FILL_FILLING_FAILED ends in
\* FILL_TERMINATE when it consumes FillNext, Exit or Abort or finds the stop
\* switch on, and in the same failure state otherwise
C23_FailureStatesLeave ==
  [][( /\ state \in {"FILL_INIT_FILLING_FAILED", "FILL_FILLING_FAILED"}
       /\ run )
       => state' = IF \/ getRequest \in {"FILL_NEXT", "EXIT", "ABORT"}
                      \/ stopswitch
                     THEN "FILL_TERMINATE"
                     ELSE state]_vars

(***************************************************************************)
(* Dispatch and the button-event queue.                                    *)
(***************************************************************************)
\* the call of the handler that belongs to state s, for some sensor reads
HandlerOf(s, left) ==
  CASE s = "UNINIT" -> process_UNINIT(left)
    [] s = "STANDBY" -> process_STANDBY(left)
    [] s = "DIAGNOSTICS" -> process_DIAGNOSTICS(left)
    [] s = "SETUP" -> process_SETUP(left)
    [] s = "FILL_PREP1" -> process_FILL_PREP1(left)
    [] s = "FILL_PREP2" -> process_FILL_PREP2(left)
    [] s = "FILL_RESET_STOP" -> process_FILL_RESET_STOP(left)
    [] s = "FILL_PRESSURIZE" ->
         \E pressure \in Pressures : process_FILL_PRESSURIZE(left, pressure)
    [] s = "FILL_PURGE_INIT" -> process_FILL_PURGE_INIT(left)
    [] s = "FILL_PURGE_SETUP" -> process_FILL_PURGE_SETUP(left)
    [] s = "FILL_PURGE_WAIT" -> process_FILL_PURGE_WAIT(left)
    [] s = "FILL_PURGE_CLEAR_WAIT" ->
         \E weight \in Weights : process_FILL_PURGE_CLEAR_WAIT(left, weight)
    [] s = "FILL_PURGE_RESET_WAIT" ->
         \E weight \in Weights : process_FILL_PURGE_RESET_WAIT(left, weight)
    [] s = "FILL_CLEAR_BOTTLE" ->
         \E weight \in Weights : process_FILL_CLEAR_BOTTLE(left, weight)
    [] s = "FILL_LOAD_BOTTLE" ->
         \E weight \in Weights : process_FILL_LOAD_BOTTLE(left, weight)
    [] s = "FILL_LOAD_BOTTLE_WAIT" ->
         \E settled \in BOOLEAN, weight, recorded, skipped \in Weights :
           process_FILL_LOAD_BOTTLE_WAIT(left, settled, weight, recorded,
                                         skipped)
    [] s = "FILL_READY_SETUP" -> process_FILL_READY_SETUP(left)
    [] s = "FILL_READY_WAIT" -> process_FILL_READY_WAIT(left)
    [] s = "FILL_INIT_FILLING" -> process_FILL_INIT_FILLING(left)
    [] s = "FILL_INIT_FILLING_WAIT" ->
         \E settled \in BOOLEAN, weight \in Weights :
           process_FILL_INIT_FILLING_WAIT(left, settled, weight)
    [] s = "FILL_INIT_FILLING_FAILED" -> process_FILL_INIT_FILLING_FAILED(left)
    [] s = "FILL_FILLING_WAIT" ->
         \E settled \in BOOLEAN, weight \in Weights :
           process_FILL_FILLING_WAIT(left, settled, weight)
    [] s = "FILL_FILLING_FAILED" -> process_FILL_FILLING_FAILED(left)
    [] s = "FILL_TERMINATE" -> process_FILL_TERMINATE(left)
    [] s = "CLEAN" -> process_CLEAN(left)

C25_SequencerWritesLatchOnly ==
  [][run => /\ UNCHANGED <<_weight, _weights, pressureRaw>>
            /\ UNCHANGED <<_stopswitch, _footswitch, simulatedStopswitch>>
            /\ _footswitchLatched' \in {_footswitchLatched, FALSE}
            /\ simulatedFootswitchLatched'
                 \in {simulatedFootswitchLatched, FALSE}]_vars

(***************************************************************************)
(* The two worker threads from start to end: Filler.main and               *)
(* Sequencer.main, and the stop methods that another thread may call.      *)
(***************************************************************************)
\* Filler.stop
stopFiller ==
  /\ ~filler_stop
  /\ filler_stop' = TRUE
  /\ UNCHANGED <<simVars, rawVars, requests, readpc, seqVars, obsVars,
                 engVars, parsedAge, posted, linesLeft, oddLeft, buttonRoom, cfgVars, openFailures,
                 fillerpc, seq_stop, seqpc, ser>>

\* Sequencer.stop
stopSequencer ==
  /\ ~seq_stop
  /\ seq_stop' = TRUE
  /\ UNCHANGED <<simVars, rawVars, requests, readpc, seqVars, obsVars,
                 engVars, parsedAge, posted, linesLeft, oddLeft, buttonRoom, cfgVars, openFailures,
                 filler_stop, fillerpc, seqpc, ser>>

\* Filler.main: one turn of the loop, or the way out of it once the stop
\* event is found set at the wait.  On the way out ser.close() is called on
\* whatever ser holds: on None the call raises AttributeError, which nothing
\* catches, and the lines after it are not reached
Filler_main ==
  /\ fillerpc = "loop"
  /\ IF filler_stop /\ readpc = "idle"
       THEN /\ IF ser = "None"
                 THEN fillerpc' = "raised" /\ UNCHANGED ser
                 ELSE fillerpc' = "finished" /\ ser' = "closed"
            /\ UNCHANGED <<simVars, rawVars, requests, readpc, seqVars,
                           obsVars, engVars, parsedAge, posted, linesLeft,
                           oddLeft, buttonRoom, cfgVars, openFailures, filler_stop, seq_stop, seqpc>>
       ELSE \/ read
            \/ readNoPort

\* Sequencer.main: one turn of the loop, or the way out of it once the stop
\* event is found set at the wait (no transition enters TERMINATE, so the
\* break of line 109 is never taken)
Sequencer_main ==
  /\ seqpc = "loop"
  /\ IF seq_stop
       THEN /\ seqpc' = "finished"
            /\ UNCHANGED <<simVars, rawVars, requests, readpc, seqVars,
                           obsVars, engVars, parsedAge, posted, linesLeft,
                           oddLeft, buttonRoom, cfgVars, openFailures, filler_stop, fillerpc,
                           seq_stop, ser>>
       ELSE run

\* the two threads and the thread that stops them, while the operator
\* leaves the panels alone
LifeNext ==
  \/ Filler_main
  \/ Sequencer_main
  \/ stopFiller
  \/ stopSequencer

InitLife ==
  /\ Init /\ ~simulate /\ buttonRoom = 0 /\ setsLeft = 0
  /\ linesLeft = 0 /\ oddLeft = 0
LifeSpec == InitLife /\ [][LifeNext]_vars

\* C26: the engine leaves its loop only after stop was called, and when it
\* does it has closed the serial port and emitted finished; the sequencer
\* leaves its loop only after stop was called and has then emitted finished
C26_StopClosesAndFinishes ==
  [][/\ (fillerpc = "loop" /\ fillerpc' # "loop")
          => filler_stop /\ ser' = "closed" /\ fillerpc' = "finished"
     /\ (seqpc = "loop" /\ seqpc' # "loop")
          => seq_stop /\ seqpc' = "finished"]_vars

(***************************************************************************)
(* Configuration.py: the configuration alone, with the setup screen that   *)
(* changes it and the restarts of the program that load it again.          *)
(***************************************************************************)
cfgSame ==
  UNCHANGED <<simVars, rawVars, requests, readpc, seqVars, obsVars, engVars,
              parsedAge, posted, linesLeft, oddLeft, buttonRoom, lifeVars,
              openFailures, ser>>

\* Configuration.get: the value returned
get(configurable) ==
  IF configurable \in CFG /\ configurableItems[configurable] # KeyError
    THEN configurableItems[configurable]
    ELSE FloatValue(0)

\* Configuration.load in a program just started: the defaults, overwritten
\* by what the file holds; the file is written when it lacks an entry; the
\* items are then built in order, and the first text that its itemtype
\* rejects ends the call with ValueError
load ==
  LET config == [key \in CFG |-> IF inifile[key] = Missing
                                   THEN defaultText(key)
                                   ELSE inifile[key]]
      bad    == {i \in 1..Len(CfgOrder) :
                   convert(itemtype[CfgOrder[i]], config[CfgOrder[i]])
                     = ValueError}
      built  == {i \in 1..Len(CfgOrder) : \A j \in bad : i < j}
  IN  /\ inifile' = config
      /\ configurableItems' =
           [key \in CFG |->
              IF \E i \in built : CfgOrder[i] = key
                THEN convert(itemtype[key], config[key])
                ELSE KeyError]
      /\ cfgpc' = IF bad = {} THEN "loaded" ELSE "raised"
      /\ UNCHANGED setsLeft
      /\ cfgSame

\* Configuration.set with save=True, and the save it calls
set(configurable, value) ==
  /\ cfgpc = "loaded"
  /\ setsLeft > 0
  /\ setsLeft' = setsLeft - 1
  /\ IF configurable \in CFG /\ configurableItems[configurable] # KeyError
       THEN /\ configurableItems' =
                 [configurableItems EXCEPT ![configurable] = value]
            /\ inifile' = [key \in CFG |-> format(configurableItems'[key])]
       ELSE UNCHANGED <<configurableItems, inifile>>
  /\ UNCHANGED cfgpc
  /\ cfgSame

\* what the operator types into the dialog of the setup screen
Entries == {Digits(6), Decimal(2812), Word}

\* MainWindow.changeConfigurable: with OK the text is converted to the type
\* of the item, and a text that does not convert ends the call with a
\* dialog; with Cancel newval stays None; set is then called with newval
changeConfigurable ==
  \E configurable \in CFG :
    \/ \E entry \in Entries :
         LET newval == convert(itemtype[configurable], entry)
         IN  IF newval = ValueError
               THEN cfgpc = "loaded" /\ UNCHANGED vars
               ELSE set(configurable, newval)
    \/ set(configurable, None)

\* a call of set with a key that is not in the master list
setUnrecognized ==
  \E value \in {IntValue(6), FloatValue(2812)} : set("DISPENSE_RATE", value)

ConfigNext ==
  \/ load
  \/ changeConfigurable
  \/ setUnrecognized

InitConfig ==
  /\ Init /\ ~simulate /\ buttonRoom = 0 /\ setsLeft = MaxSets
  /\ linesLeft = 0 /\ oddLeft = 0
ConfigSpec == InitConfig /\ [][ConfigNext]_vars

\* C27: loading the file again after a set gives every recognized key the
\* value that get returned before the load, in the declared type of the
\* item; a set on an unrecognized key changes no item and not the file
C27_RoundTrip ==
  [][/\ (cfgpc = "loaded" /\ load)
          => /\ cfgpc' = "loaded"
             /\ \A key \in CFG : /\ get(key)' = get(key)
                                 /\ get(key)'.type = itemtype[key]
     /\ setUnrecognized => UNCHANGED <<configurableItems, inifile>>]_vars

\* C28: every tick that takes the sequencer from FILL_PRESSURIZE to
\* FILL_PURGE_SETUP leaves the purge count at 0 and the foot switch latch
\* cleared
C28_PurgeStartsFresh ==
  [][(run /\ state = "FILL_PRESSURIZE" /\ state' = "FILL_PURGE_SETUP")
       => purgeCount' = 0 /\ ~footswitchLatched']_vars

\* C29: the ticks of one wait in FILL_PRESSURIZE post one Pressurize
\* command between them, however many they are
C29_PressurizeOnce == visitPosts <= 1

\* C30: a tick of FILL_RESET_STOP that takes no Exit or Abort event leaves
\* the sequencer in FILL_RESET_STOP when the stop switch reads on, and
\* moves it to FILL_PRESSURIZE when the stop switch reads off
C30_WaitsForStopReset ==
  [][(run /\ state = "FILL_RESET_STOP" /\ getRequest \notin {"EXIT", "ABORT"})
       => state' = IF stopswitch THEN "FILL_RESET_STOP"
                                 ELSE "FILL_PRESSURIZE"]_vars

\* C31: the tick of FILL_READY_SETUP that enters FILL_READY_WAIT leaves the
\* foot switch latch cleared, so a press latched earlier is discarded
C31_ReadySetupClearsLatch ==
  [][(run /\ state = "FILL_READY_SETUP" /\ state' = "FILL_READY_WAIT")
       => ~footswitchLatched']_vars

\* C32: a tick of FILL_PURGE_SETUP that finds the foot switch latched and
\* the purge count under the limit posts one Dispense(purge_time), counts
\* the purge, clears the latch, arms the 1 s timer and enters
\* FILL_PURGE_WAIT; a tick of FILL_PURGE_WAIT posts nothing, and returns to
\* FILL_PURGE_SETUP only with the timer expired and the latch cleared
C32_PurgePulseStep ==
  [][/\ ( /\ state = "FILL_PURGE_SETUP" /\ run
          /\ footswitchLatched
          /\ purgeCount < getValue("PURGE_MAX_COUNT") )
          => /\ requests' = requests \o <<DISPENSE(getValue("PURGE_TIME"))>>
             /\ purgeCount' = purgeCount + 1
             /\ ~footswitchLatched'
             /\ timer' = timerStart(1000)
             /\ state' = "FILL_PURGE_WAIT"
     /\ (state = "FILL_PURGE_WAIT" /\ run)
          => /\ requests' = requests
             /\ state' = "FILL_PURGE_SETUP"
                  => timer' = 0 /\ ~footswitchLatched'
    ]_vars

\* C33: the tick of FILL_INIT_FILLING arms the timer for
\* fill_init_dispense_time; a tick of FILL_INIT_FILLING_WAIT that posts
\* nothing only lets that timer run down, and one that posts something posts
\* a single Dispense, with the timer expired and the scale read stable
C33_SecondPulseGated ==
  [][/\ (state = "FILL_INIT_FILLING" /\ run)
          => timer' = timerStart(getValue("FILL_INIT_DISPENSE_TIME"))
     /\ (state = "FILL_INIT_FILLING_WAIT" /\ run)
          => IF requests' = requests
               THEN timer' \in elapsed
               ELSE /\ 0 \in elapsed
                    /\ \E weight \in Weights :
                         /\ requests' = requests \o
                              <<DISPENSE(dispenseTime(weight
                                                      - weightWithBottle))>>
                         /\ process_FILL_INIT_FILLING_WAIT(0, TRUE, weight)
    ]_vars

\* C33: the second pulse has been posted and its timer armed
C33_Witness ==
  /\ state = "FILL_FILLING_WAIT"
  /\ requests = <<DISPENSE(6036)>>
  /\ timer = TimerCap

\* C34: the tick of UNINIT ends in STANDBY; a tick of STANDBY posts nothing
\* to the filler and changes the state only for the three buttons of the
\* main screen, whatever the event and the stop switch
C34_TopLevelNavigation ==
  [][/\ (state = "UNINIT" /\ run) => state' = "STANDBY"
     /\ (state = "STANDBY" /\ run)
          => /\ requests' = requests
             /\ state' = ( CASE getRequest = "MAIN_ENTER_FILL" -> "FILL_PREP1"
                             [] getRequest = "MAIN_ENTER_CLEAN" -> "CLEAN"
                             [] getRequest = "MAIN_ENTER_DIAGNOSTICS"
                                  -> "DIAGNOSTICS"
                             [] OTHER -> "STANDBY" )
    ]_vars

\* C34: STANDBY is about to consume an Exit event left over from the fill
\* screen, with the stop switch on
C34_Witness ==
  /\ state = "STANDBY"
  /\ seqRequests = <<"EXIT">>
  /\ stopswitch

\* C35: a tick of CLEAN posts Pressurize, Vent or Dispense(clean_dispense)
\* for the clean button it consumes and stays in CLEAN, posts Abort then
\* Vent for Exit and returns to STANDBY, and for anything else posts nothing
\* and stays in CLEAN
C35_CleanForwards ==
  [][(state = "CLEAN" /\ run)
       => /\ requests' = requests \o
               ( CASE getRequest = "EXIT" -> <<ABORT, VENT>>
                   [] getRequest = "CLEAN_PRESSURE_ON" -> <<PRESSURIZE>>
                   [] getRequest = "CLEAN_PRESSURE_OFF" -> <<VENT>>
                   [] getRequest = "CLEAN_DISPENSE"
                        -> <<DISPENSE(getValue("CLEAN_DISPENSE"))>>
                   [] OTHER -> <<>> )
          /\ state' = IF getRequest = "EXIT" THEN "STANDBY" ELSE "CLEAN"
    ]_vars

\* C35: the clean dispense button has been forwarded
C35_Witness ==
  /\ state = "CLEAN"
  /\ requests = <<DISPENSE(getValue("CLEAN_DISPENSE"))>>

(***************************************************************************)
(* The engine alone on a port that may fail to open.                       *)
(***************************************************************************)
PortNext ==
  \/ readNoPort
  \/ \E line \in WireLines : readLine(line)
  \/ \E task \in PostTasks : post(task)

PortSpec == InitWire /\ [][PortNext]_vars

C37_DurationsNotNegative ==
  \A i \in 1..Len(requests) :
    requests[i][1] = "DISPENSE" => requests[i][2] >= 0

\* C38: a tick of a fill state made while the stop switch reads on appends
\* no Dispense command to the queue of the filler
C38_StopSuppressesDispense ==
  [][(state \in fillStates /\ stopswitch /\ run)
       => \A i \in (Len(requests) + 1)..Len(requests') :
            requests'[i][1] # "DISPENSE"]_vars

\* C39: a tick that takes FILL_LOAD_BOTTLE_WAIT to FILL_READY_SETUP without
\* a FillNext event records a weight with bottle of at least
\* min_bottle_weight
C39_RecordedBottleWeight ==
  [][( /\ state = "FILL_LOAD_BOTTLE_WAIT"
       /\ getRequest # "FILL_NEXT"
       /\ state' = "FILL_READY_SETUP"
       /\ run )
       => weightWithBottle' >= getValue("BOTTLE_MIN_WEIGHT")]_vars

\* C40: a first-pulse Dispense(FILL_INIT_DISPENSE_TIME) is posted only in a
\* fill session that has, earlier and in this order, read the stop switch
\* off in FILL_RESET_STOP, posted Pressurize, read the pressure at the
\* target, recorded the weight with the bottle, and acknowledged a latched
\* pedal press in FILL_READY_WAIT; FILL_INIT_FILLING is reached no other way
C40_FirstPulseAfterMilestones ==
  /\ [](state = "FILL_INIT_FILLING" => fillProgress = Len(Milestones))
  /\ [][( /\ state \in fillStates
          /\ Len(requests') > Len(requests)
          /\ requests'[Len(requests')] =
               DISPENSE(getValue("FILL_INIT_DISPENSE_TIME")) )
          => fillProgress = Len(Milestones)]_vars

\* the first pulse of a session that passed every milestone is waiting in
\* the queue
C40_Witness ==
  /\ state = "FILL_INIT_FILLING_WAIT"
  /\ fillProgress = Len(Milestones)
  /\ requests = <<DISPENSE(getValue("FILL_INIT_DISPENSE_TIME"))>>

====
